---- MODULE Spec2Model ----
(***************************************************************************)
(* A model of the WeatherApp backend (src/main.py, src/run.py): process    *)
(* startup with load_config, the WeatherAPI client (get_current_weather,   *)
(* get_weather_forecast, _process_daily_forecast) and the two JSON         *)
(* handlers get_weather and get_forecast.                                  *)
(*                                                                         *)
(* Numbers: temperatures and wind speeds are kept in hundredths (10.26 is  *)
(* 1026), timestamps are epoch seconds, a calendar date is <<y, m, d>>.    *)
(***************************************************************************)
EXTENDS Integers, Sequences, FiniteSets, TLC

VARIABLES
    envKey,      \* os.getenv('OPENWEATHER_API_KEY')
    cfgFile,     \* what config.ini holds
    tz,          \* the host's UTC offset in seconds (datetime.fromtimestamp is local)
    limit,       \* the provider's cap on the samples in one forecast reply
    traffic,     \* the calls that clients of this deployment make
    proc,        \* the process: "boot", "imported", "serving", "exited"
    exit_status, \* the status given to sys.exit, -1 while the process lives
    weather_api, \* the module-level WeatherAPI instance
    reqs         \* one record per worker: the request it serves and the call's locals

vars == <<envKey, cfgFile, tz, limit, traffic, proc, exit_status, weather_api, reqs>>

(***************************************************************************)
(* Bounds of the model.                                                    *)
(***************************************************************************)
\* the longest forecast list the provider returns when one request is served at a time
MaxLen == 3
\* the longest forecast list when two requests are served concurrently
MaxLenConc == 1
\* the longest forecast list when the ways of configuring the key are explored
MaxLenBoot == 1

(***************************************************************************)
(* Python helpers.                                                         *)
(***************************************************************************)
Min2(a, b) == IF a <= b THEN a ELSE b
Max2(a, b) == IF a >= b THEN a ELSE b
Abs(x) == IF x < 0 THEN -x ELSE x

\* lst[:n]
SliceTo(lst, n) ==
    IF n >= 0 THEN SubSeq(lst, 1, Min2(n, Len(lst)))
    ELSE SubSeq(lst, 1, Max2(Len(lst) + n, 0))

\* round(x, 1) of a value given in hundredths; the result is in hundredths too.
\* A tie (x.x5) that a double holds exactly (x.25, x.75) goes to the even
\* tenth.  The other ties are decided by the double nearest to the decimal;
\* none of them is among the temperatures of the model (Samples, Bodies).
Round1(h) ==
    LET q == h \div 10
        r == h % 10
    IN  IF r < 5 THEN 10 * q
        ELSE IF r > 5 THEN 10 * (q + 1)
        ELSE IF q % 2 = 0 THEN 10 * q ELSE 10 * (q + 1)

\* str.title() on the descriptions the provider sends in the model
Title(s) ==
    CASE s = "light rain" -> "Light Rain"
      [] s = "clear sky" -> "Clear Sky"
      [] s = "OVERCAST clouds" -> "Overcast Clouds"
      [] s = "Mist" -> "Mist"
      [] OTHER -> s

\* datetime.fromtimestamp(ts): local seconds, day number, date, hour, minute
LocalSeconds(ts) == ts + tz
DayNumber(ts) == LocalSeconds(ts) \div 86400
HourOf(ts) == (LocalSeconds(ts) % 86400) \div 3600
MinuteOf(ts) == (LocalSeconds(ts) % 3600) \div 60

\* the proleptic Gregorian date of a day number (days since 1970-01-01)
CivilFromDays(n) ==
    LET z == n + 719468
        era == z \div 146097
        doe == z - era * 146097
        yoe == (doe - doe \div 1460 + doe \div 36524 - doe \div 146096) \div 365
        doy == doe - (365 * yoe + yoe \div 4 - yoe \div 100)
        mp == (5 * doy + 2) \div 153
        d == doy - (153 * mp + 2) \div 5 + 1
        m == IF mp < 10 THEN mp + 3 ELSE mp - 9
        y == yoe + era * 400 + (IF m <= 2 THEN 1 ELSE 0)
    IN  <<y, m, d>>

\* datetime.fromtimestamp(ts).date()
DateOf(ts) == CivilFromDays(DayNumber(ts))

Pad2(n) == IF n < 10 THEN "0" \o ToString(n) ELSE ToString(n)

\* strftime('%Y-%m-%d')
FormatDate(ts) ==
    LET c == DateOf(ts) IN ToString(c[1]) \o "-" \o Pad2(c[2]) \o "-" \o Pad2(c[3])

\* strftime('%H:%M')
FormatHM(ts) == Pad2(HourOf(ts)) \o ":" \o Pad2(MinuteOf(ts))

\* strftime('%A'): 1970-01-01 was a Thursday
DayName(ts) ==
    LET k == (DayNumber(ts) + 3) % 7
    IN  CASE k = 0 -> "Monday" [] k = 1 -> "Tuesday" [] k = 2 -> "Wednesday"
          [] k = 3 -> "Thursday" [] k = 4 -> "Friday" [] k = 5 -> "Saturday"
          [] OTHER -> "Sunday"

(***************************************************************************)
(* What the environment supplies: cities, the days query, upstream data.   *)
(***************************************************************************)
Cities == {"Pune", "Atlantis"}

\* request.args.get('days', 5, type=int): the parameter, when it is an integer
NoQuery == [given |-> FALSE, n |-> 0]
Queries == {NoQuery} \cup {[given |-> TRUE, n |-> k] : k \in {-1, 0, 2, 30}}

\* the days a caller of WeatherAPI.get_weather_forecast may pass
DaysArgs == {-1, 0, 30}

\* 2023-12-31 00:00:00 UTC
Epoch0 == 19722 * 86400
At(day, hour) == Epoch0 + day * 86400 + hour * 3600

Rain == [present |-> TRUE, description |-> "light rain", icon |-> "10d",
         humidity |-> 81, wind |-> 410]
Clear == [present |-> TRUE, description |-> "clear sky", icon |-> "01d",
          humidity |-> 40, wind |-> 250]
\* an entry of the list without the 'weather' key
NoWeather == [present |-> FALSE, description |-> "", icon |-> "",
              humidity |-> 0, wind |-> 0]

\* the 3-hour samples (item['dt'], item['main']['temp'], weather payload)
Samples ==
    { [dt |-> At(0, 9), temp |-> 1026, weather |-> Rain],
      [dt |-> At(0, 12), temp |-> 1250, weather |-> Clear],
      [dt |-> At(0, 15), temp |-> 980, weather |-> Clear],
      [dt |-> At(1, 9), temp |-> 1225, weather |-> Clear],
      [dt |-> At(1, 15), temp |-> -346, weather |-> NoWeather],
      [dt |-> At(2, 6), temp |-> 1234, weather |-> Rain] }

ListsUpTo(n) == UNION {[1..k -> Samples] : k \in 0..n}

\* bodies of the current-weather resource
Body(ok, typed, deg, vis) ==
    [has_name |-> ok, temp_is_number |-> typed, name |-> "Pune", country |-> "IN",
     temp |-> 2846, feels_like |-> 3025, humidity |-> 62, pressure |-> 1009,
     description |-> "OVERCAST clouds", main |-> "Clouds", icon |-> "04d",
     wind_speed |-> 410, has_deg |-> deg, deg |-> 230,
     has_visibility |-> vis, visibility |-> 6500,
     sunrise |-> At(1, 1) + 1740, sunset |-> At(1, 12) + 2400, timezone |-> 19800]
FullBody == Body(TRUE, TRUE, TRUE, TRUE)
Bodies == {FullBody, Body(TRUE, TRUE, FALSE, FALSE), Body(FALSE, TRUE, TRUE, TRUE),
           Body(TRUE, FALSE, TRUE, TRUE)}

\* how requests.get / raise_for_status end
FailureKinds == {"Timeout", "HTTPError404", "HTTPError500", "ConnectionError"}

NoReply == [kind |-> "none", has_list |-> FALSE, list |-> <<>>, body |-> FullBody]
FailureReply(k) == [kind |-> k, has_list |-> FALSE, list |-> <<>>, body |-> FullBody]
WeatherReply(b) == [kind |-> "ok", has_list |-> FALSE, list |-> <<>>, body |-> b]
ForecastReply(has, l) == [kind |-> "ok", has_list |-> has, list |-> l, body |-> FullBody]

(***************************************************************************)
(* WeatherAPI.                                                             *)
(***************************************************************************)
NoApi == [api_key |-> "", base_url |-> "", forecast_url |-> ""]

\* WeatherAPI.__init__
WeatherAPI(key) ==
    [api_key |-> key,
     base_url |-> "http://api.openweathermap.org/data/2.5",
     forecast_url |-> "http://api.openweathermap.org/data/2.5/forecast"]

NoWeatherData ==
    [city |-> "", country |-> "", temperature |-> 0, feels_like |-> 0, humidity |-> 0,
     pressure |-> 0, description |-> "", main |-> "", icon |-> "", wind_speed |-> 0,
     wind_direction |-> 0, visibility |-> <<0, 0>>, sunrise |-> "", sunset |-> "",
     timezone |-> 0]

\* the dict get_current_weather builds (last_updated, the wall clock, is left out);
\* visibility / 1000 is <<whole km, remaining metres>>
WeatherData(data) ==
    [city |-> data.name, country |-> data.country,
     temperature |-> Round1(data.temp), feels_like |-> Round1(data.feels_like),
     humidity |-> data.humidity, pressure |-> data.pressure,
     description |-> Title(data.description), main |-> data.main, icon |-> data.icon,
     wind_speed |-> data.wind_speed,
     wind_direction |-> IF data.has_deg THEN data.deg ELSE 0,
     visibility |-> LET v == IF data.has_visibility THEN data.visibility ELSE 0
                    IN  <<v \div 1000, v % 1000>>,
     sunrise |-> FormatHM(data.sunrise), sunset |-> FormatHM(data.sunset),
     timezone |-> data.timezone]

\* what a fetch hands to its caller: a value (some), None, or an exception that
\* no except clause caught (escaped)
NoResult == [some |-> FALSE, escaped |-> FALSE, weather |-> NoWeatherData,
             forecast |-> <<>>, log |-> ""]
\* return None, after logger.error
Failed(log) == [NoResult EXCEPT !.log = log]
\* the exception leaves the method
Escaped == [NoResult EXCEPT !.escaped = TRUE]

\* the exception the try block of a fetch raises on this reply, "" for none:
\* requests.get and raise_for_status, then the reading of the body
RaisedBy(op, reply) ==
    CASE reply.kind = "Timeout" -> "Timeout"
      [] reply.kind \in {"HTTPError404", "HTTPError500"} -> "HTTPError"
      [] reply.kind = "ConnectionError" -> "ConnectionError"
      [] op = "weather" /\ ~reply.body.has_name -> "KeyError"
      [] op = "weather" /\ ~reply.body.temp_is_number -> "TypeError"
      [] op = "forecast" /\ ~reply.has_list -> "KeyError"
      [] OTHER -> ""

\* the except clauses of get_current_weather, in their order
CurrentWeatherExceptNoCatchAll(exc, reply) ==
    CASE exc = "Timeout" -> Failed("timeout")
      [] exc = "HTTPError" -> Failed("http error")
      [] exc = "ConnectionError" -> Failed("request error")
      [] exc = "KeyError" -> Failed("unexpected api response format")
      [] OTHER -> Escaped

CurrentWeatherExcept(exc, reply) ==
    CASE exc = "Timeout" -> Failed("timeout")
      [] exc = "HTTPError" ->
            IF reply.kind = "HTTPError404" THEN Failed("city not found")
            ELSE Failed("http error")
      [] exc = "ConnectionError" -> Failed("request error")
      [] exc = "KeyError" -> Failed("unexpected api response format")
      [] OTHER -> Failed("unexpected error")

\* get_current_weather, from the upstream reply on
get_current_weather(reply) ==
    LET exc == RaisedBy("weather", reply)
    IN  IF exc = ""
        THEN [NoResult EXCEPT !.some = TRUE, !.weather = WeatherData(reply.body)]
        ELSE CurrentWeatherExcept(exc, reply)

NoSummary ==
    [date |-> "", day_name |-> "", temp_max |-> 0, temp_min |-> 0, description |-> "",
     icon |-> "", humidity |-> 0, wind_speed |-> 0]

\* temps = [item['main']['temp'] for item in day_data]
Temps(day_data) == [i \in 1..Len(day_data) |-> day_data[i].temp]
MaxOfAsMin(s) == CHOOSE x \in {s[i] : i \in 1..Len(s)} : \A i \in 1..Len(s) : s[i] >= x

MaxOf(s) == CHOOSE x \in {s[i] : i \in 1..Len(s)} : \A i \in 1..Len(s) : s[i] <= x
MinOf(s) == CHOOSE x \in {s[i] : i \in 1..Len(s)} : \A i \in 1..Len(s) : s[i] >= x

\* key=lambda x: abs(datetime.fromtimestamp(x['dt']).hour - 12)
MiddayKey(x) == Abs(HourOf(x.dt) - 12)

\* min(day_data, key=...): the first item with the least key
MiddayIndexLast(day_data) ==
    CHOOSE i \in 1..Len(day_data) :
        /\ \A j \in 1..Len(day_data) : MiddayKey(day_data[i]) <= MiddayKey(day_data[j])
        /\ \A j \in (i + 1)..Len(day_data) : MiddayKey(day_data[j]) > MiddayKey(day_data[i])

MiddayIndex(day_data) ==
    CHOOSE i \in 1..Len(day_data) :
        /\ \A j \in 1..Len(day_data) : MiddayKey(day_data[i]) <= MiddayKey(day_data[j])
        /\ \A j \in 1..(i - 1) : MiddayKey(day_data[j]) > MiddayKey(day_data[i])

\* _process_daily_forecast: raised is the KeyError of a midday item without 'weather'
process_daily_forecast(day_data) ==
    LET temps == Temps(day_data)
        midday_forecast == day_data[MiddayIndex(day_data)]
    IN  IF ~midday_forecast.weather.present
        THEN [raised |-> TRUE, val |-> NoSummary]
        ELSE [raised |-> FALSE,
              val |-> [date |-> FormatDate(day_data[1].dt),
                       day_name |-> DayName(day_data[1].dt),
                       temp_max |-> Round1(MaxOf(temps)),
                       temp_min |-> Round1(MinOf(temps)),
                       description |-> Title(midday_forecast.weather.description),
                       icon |-> midday_forecast.weather.icon,
                       humidity |-> midday_forecast.weather.humidity,
                       wind_speed |-> midday_forecast.weather.wind]]

\* the locals of get_weather_forecast's grouping loop
NoLocals == [current_date |-> <<>>, day_data |-> <<>>, daily_forecasts |-> <<>>,
             raised |-> FALSE]

\* if current_date != forecast_date
NewDayAlways(current_date, forecast_date) == TRUE

NewDayOnlyFirst(current_date, forecast_date) == current_date = <<>>

NewDay(current_date, forecast_date) == current_date # forecast_date

\* one pass of the body of  for item in data['list']
LoopBody(loc, item) ==
    LET forecast_date == DateOf(item.dt)
    IN  IF NewDay(loc.current_date, forecast_date)
        THEN LET p == process_daily_forecast(loc.day_data)
             IN  IF loc.day_data # <<>> /\ p.raised
                 THEN [loc EXCEPT !.raised = TRUE]
                 ELSE [current_date |-> forecast_date,
                       day_data |-> <<item>>,
                       daily_forecasts |->
                           IF loc.day_data # <<>>
                           THEN Append(loc.daily_forecasts, p.val)
                           ELSE loc.daily_forecasts,
                       raised |-> FALSE]
        ELSE [loc EXCEPT !.day_data = Append(loc.day_data, item)]

\* after the loop: add the last day
LastDay(loc) ==
    IF loc.day_data = <<>> THEN loc
    ELSE LET p == process_daily_forecast(loc.day_data)
         IN  IF p.raised THEN [loc EXCEPT !.raised = TRUE]
             ELSE [loc EXCEPT !.daily_forecasts = Append(loc.daily_forecasts, p.val)]

\* return daily_forecasts[:days]
ForecastResult(loc, days) ==
    [NoResult EXCEPT !.some = TRUE, !.forecast = SliceTo(loc.daily_forecasts, days)]

\* the one except clause of get_weather_forecast:
\* except Exception as e: logger.error(...); return None
ForecastExcept(exc) == Failed("error fetching forecast")

RECURSIVE RunLoop(_, _, _)
RunLoop(loc, list, i) ==
    IF i > Len(list) \/ loc.raised THEN loc
    ELSE RunLoop(LoopBody(loc, list[i]), list, i + 1)

\* get_weather_forecast from the upstream reply on, run without interruption
get_weather_forecast(days, reply) ==
    IF RaisedBy("forecast", reply) # ""
    THEN ForecastExcept(RaisedBy("forecast", reply))
    ELSE LET loc == RunLoop(NoLocals, reply.list, 1)
             fin == IF loc.raised THEN loc ELSE LastDay(loc)
         IN  IF fin.raised THEN ForecastExcept("KeyError")
             ELSE ForecastResult(fin, days)

\* the query parameters of the outbound GET
NoSent == [url |-> "", q |-> "", appid |-> "", units |-> "", has_cnt |-> FALSE,
           cnt |-> 0]
WeatherParams(api, city) ==
    [url |-> api.base_url \o "/weather", q |-> city, appid |-> api.api_key,
     units |-> "metric", has_cnt |-> FALSE, cnt |-> 0]
ForecastParams(api, city, days) ==
    [url |-> api.forecast_url, q |-> city, appid |-> api.api_key,
     units |-> "metric", has_cnt |-> TRUE, cnt |-> days * 8]

(***************************************************************************)
(* Startup: load_config, the module-level check of main.py, run.py.        *)
(***************************************************************************)
EnvValues == {[set |-> FALSE, val |-> ""], [set |-> TRUE, val |-> ""],
              [set |-> TRUE, val |-> "env-key"]}
\* config.ini: absent, without [gfg] api, with an empty api, with a key
CfgValues == {[exists |-> FALSE, has_api |-> FALSE, api |-> ""],
              [exists |-> TRUE, has_api |-> FALSE, api |-> ""],
              [exists |-> TRUE, has_api |-> TRUE, api |-> ""],
              [exists |-> TRUE, has_api |-> TRUE, api |-> "file-key"]}

NoKey == [some |-> FALSE, key |-> ""]

load_config ==
    IF envKey.set /\ envKey.val # "" THEN [some |-> TRUE, key |-> envKey.val]
    ELSE IF cfgFile.exists
         THEN IF cfgFile.has_api THEN [some |-> TRUE, key |-> cfgFile.api] ELSE NoKey
         ELSE NoKey

\* if not api_key
NotKeyNoneOnly(k) == ~k.some

NotKey(k) == ~k.some \/ k.key = ""

(***************************************************************************)
(* The handlers.                                                           *)
(***************************************************************************)
\* days = min(max(days, 1), 5)
ClampDaysNoLower(days) == Min2(days, 5)

ClampDays(days) == Min2(Max2(days, 1), 5)

\* request.args.get('days', 5, type=int)
QueryDays(query) == IF query.given THEN query.n ELSE 5

NoResponse == [status |-> 0, success |-> FALSE, weather |-> NoWeatherData,
               forecast |-> <<>>, error |-> <<>>]

\* what the framework answers when the view function raises
ServerError == [NoResponse EXCEPT !.status = 500]

\* the f-string of the error, as its literal and interpolated parts
ErrorMessage(what, city) ==
    <<"Could not find " \o what \o " data for \"", city,
      "\". Please check the city name and try again.">>

\* if weather_data: ... else: ..., 404
WeatherResponse(city, weather_data) ==
    IF weather_data.some
    THEN [status |-> 200, success |-> TRUE, weather |-> weather_data.weather,
          forecast |-> <<>>, error |-> <<>>]
    ELSE [status |-> 404, success |-> FALSE, weather |-> NoWeatherData,
          forecast |-> <<>>, error |-> ErrorMessage("weather", city)]

\* if forecast_data: ... else: ..., 404   (None and [] are both false)
ForecastResponse(city, forecast_data) ==
    IF forecast_data.some /\ forecast_data.forecast # <<>>
    THEN [status |-> 200, success |-> TRUE, weather |-> NoWeatherData,
          forecast |-> forecast_data.forecast, error |-> <<>>]
    ELSE [status |-> 404, success |-> FALSE, weather |-> NoWeatherData,
          forecast |-> <<>>, error |-> ErrorMessage("forecast", city)]

\* the response to a GET on either route, given what the fetch handed back
HandlerResponse(op, city, result) ==
    IF result.escaped THEN ServerError
    ELSE IF op = "weather" THEN WeatherResponse(city, result)
    ELSE ForecastResponse(city, result)

(***************************************************************************)
(* The state machine.                                                      *)
(***************************************************************************)
Workers == DOMAIN reqs

\* a call a client makes: a GET on one of the two routes, or a direct call of
\* WeatherAPI.get_weather_forecast
WeatherCall(city) ==
    [via |-> "http", op |-> "weather", city |-> city, query |-> NoQuery, days |-> 0]
ForecastCall(city, query) ==
    [via |-> "http", op |-> "forecast", city |-> city, query |-> query, days |-> 0]
DirectCall(city, days) ==
    [via |-> "direct", op |-> "forecast", city |-> city, query |-> NoQuery,
     days |-> days]

Traffic ==
    {WeatherCall(c) : c \in Cities}
    \cup {ForecastCall("Pune", q) : q \in Queries}
    \cup {ForecastCall("Atlantis", NoQuery)}
    \cup {DirectCall("Pune", d) : d \in DaysArgs}

ConcTraffic ==
    {WeatherCall("Pune"), ForecastCall("Atlantis", [given |-> TRUE, n |-> 0]),
     DirectCall("Pune", -1)}

Idle == [pc |-> "idle", via |-> "", op |-> "", city |-> "", query |-> NoQuery,
         days |-> 0, calls |-> 0, sent |-> NoSent, reply |-> NoReply, i |-> 0,
         loc |-> NoLocals, result |-> NoResult, response |-> NoResponse]

InitEnv ==
    /\ envKey \in EnvValues
    /\ cfgFile \in CfgValues
    /\ tz \in {0, 36000}
    /\ proc = "boot"
    /\ exit_status = -1
    /\ weather_api = NoApi

\* one request at a time, the key in the environment
Init ==
    /\ InitEnv
    /\ envKey.val # ""
    /\ ~cfgFile.exists
    /\ limit = MaxLen
    /\ traffic = Traffic
    /\ reqs = [r \in 1..1 |-> Idle]

\* one request at a time, every way the key may be configured
InitBoot ==
    /\ InitEnv
    /\ limit = MaxLenBoot
    /\ traffic = Traffic
    /\ reqs = [r \in 1..1 |-> Idle]

\* two workers share the WeatherAPI instance
InitConc ==
    /\ InitEnv
    /\ envKey.val # ""
    /\ ~cfgFile.exists
    /\ tz = 0
    /\ limit = MaxLenConc
    /\ traffic = ConcTraffic
    /\ reqs = [r \in 1..2 |-> Idle]

\* main.py at import: api_key = load_config(); exit(1) without a key; the instance
ImportMain ==
    /\ proc = "boot"
    /\ LET api_key == load_config
       IN  IF NotKey(api_key)
           THEN /\ proc' = "exited"
                /\ exit_status' = 1
                /\ UNCHANGED weather_api
           ELSE /\ proc' = "imported"
                /\ weather_api' = WeatherAPI(api_key.key)
                /\ UNCHANGED exit_status
    /\ UNCHANGED <<envKey, cfgFile, tz, limit, traffic, reqs>>

\* run.py: the second load_config, then app.run (main.py run as the script
\* goes from the import straight to app.run)
RunMain ==
    /\ proc = "imported"
    /\ LET api_key == load_config
       IN  IF NotKey(api_key)
           THEN proc' = "exited" /\ exit_status' = 1
           ELSE proc' = "serving" /\ UNCHANGED exit_status
    /\ UNCHANGED <<envKey, cfgFile, tz, limit, traffic, weather_api, reqs>>

Untouched == <<envKey, cfgFile, tz, limit, traffic, proc, exit_status, weather_api>>

\* where the locals of worker r's call live: in its own frame
SharedFrame(r) == 1

Frame(r) == r

\* GET /api/weather/<city> enters get_weather
HttpWeather(r, city) ==
    /\ proc = "serving"
    /\ WeatherCall(city) \in traffic
    /\ reqs[r].pc = "idle"
    /\ reqs' = [reqs EXCEPT ![r] = [Idle EXCEPT !.pc = "call", !.via = "http",
                                                 !.op = "weather", !.city = city]]
    /\ UNCHANGED Untouched

\* GET /api/forecast/<city>?days=N enters get_forecast, which clamps days
HttpForecast(r, city, query) ==
    /\ proc = "serving"
    /\ ForecastCall(city, query) \in traffic
    /\ reqs[r].pc = "idle"
    /\ reqs' = [reqs EXCEPT ![r] = [Idle EXCEPT !.pc = "call", !.via = "http",
                                                 !.op = "forecast", !.city = city,
                                                 !.query = query,
                                                 !.days = ClampDays(QueryDays(query))]]
    /\ UNCHANGED Untouched

\* a caller other than the handler calls weather_api.get_weather_forecast(city, days)
DirectForecast(r, city, days) ==
    /\ proc = "serving"
    /\ DirectCall(city, days) \in traffic
    /\ reqs[r].pc = "idle"
    /\ reqs' = [reqs EXCEPT ![r] = [Idle EXCEPT !.pc = "call", !.via = "direct",
                                                 !.op = "forecast", !.city = city,
                                                 !.days = days]]
    /\ UNCHANGED Untouched

\* requests.get(url, params=params, timeout=10) goes out
SendUpstream(r) ==
    /\ reqs[r].pc = "call"
    /\ reqs' = [reqs EXCEPT
                  ![r].pc = "wait",
                  ![r].calls = @ + 1,
                  ![r].sent = IF reqs[r].op = "weather"
                              THEN WeatherParams(weather_api, reqs[r].city)
                              ELSE ForecastParams(weather_api, reqs[r].city,
                                                  reqs[r].days)]
    /\ UNCHANGED Untouched

\* where a fetch goes on after requests.get: get_weather_forecast into its loop when
\* nothing was raised; every fault goes to an except clause and returns
AfterReplyRetry(op, reply) ==
    IF reply.kind = "Timeout" THEN "call"
    ELSE IF op = "forecast" /\ RaisedBy("forecast", reply) = "" THEN "loop"
    ELSE "returned"

AfterReply(op, reply) ==
    IF op = "forecast" /\ RaisedBy("forecast", reply) = "" THEN "loop" ELSE "returned"

\* what the provider may answer to worker r's call
Replies(r) ==
    {FailureReply(k) : k \in FailureKinds}
    \cup (IF reqs[r].op = "weather"
          THEN {WeatherReply(b) : b \in Bodies}
          ELSE {ForecastReply(FALSE, <<>>)}
               \cup {ForecastReply(TRUE, l) : l \in ListsUpTo(limit)})

\* the call ends: get_current_weather runs to its return; get_weather_forecast
\* returns None on a fault and enters its loop otherwise
UpstreamReply(r, reply) ==
    /\ reqs' = [reqs EXCEPT
                  ![r].reply = reply,
                  ![r].result =
                      IF reqs[r].op = "weather" THEN get_current_weather(reply)
                      ELSE IF RaisedBy("forecast", reply) # ""
                      THEN ForecastExcept(RaisedBy("forecast", reply))
                      ELSE NoResult,
                  ![r].pc = AfterReply(reqs[r].op, reply),
                  ![r].i = 1,
                  ![Frame(r)].loc = NoLocals]
    /\ UNCHANGED Untouched

\* one iteration of the grouping loop
LoopStep(r) ==
    /\ reqs[r].pc = "loop"
    /\ reqs[r].i <= Len(reqs[r].reply.list)
    /\ LET new == LoopBody(reqs[Frame(r)].loc, reqs[r].reply.list[reqs[r].i])
       IN  reqs' = [reqs EXCEPT
                      ![Frame(r)].loc = new,
                      ![r].i = @ + 1,
                      ![r].pc = IF new.raised THEN "returned" ELSE "loop",
                      ![r].result = IF new.raised THEN ForecastExcept("KeyError") ELSE @]
    /\ UNCHANGED Untouched

\* the loop is over: the last day, then return daily_forecasts[:days]
LoopEnd(r) ==
    /\ reqs[r].pc = "loop"
    /\ reqs[r].i > Len(reqs[r].reply.list)
    /\ LET fin == LastDay(reqs[Frame(r)].loc)
       IN  reqs' = [reqs EXCEPT
                      ![Frame(r)].loc = fin,
                      ![r].pc = "returned",
                      ![r].result = IF fin.raised THEN ForecastExcept("KeyError")
                                    ELSE ForecastResult(fin, reqs[r].days)]
    /\ UNCHANGED Untouched

\* the handler turns what the fetch returned into the JSON response
Respond(r) ==
    /\ reqs[r].pc = "returned"
    /\ reqs[r].via = "http"
    /\ reqs' = [reqs EXCEPT
                  ![r].pc = "done",
                  ![r].response = HandlerResponse(reqs[r].op, reqs[r].city,
                                                  reqs[r].result)]
    /\ UNCHANGED Untouched

\* the direct caller has its return value
ReturnToCaller(r) ==
    /\ reqs[r].pc = "returned"
    /\ reqs[r].via = "direct"
    /\ reqs' = [reqs EXCEPT ![r].pc = "done"]
    /\ UNCHANGED Untouched

\* the worker is free for the next request
Close(r) ==
    /\ reqs[r].pc = "done"
    /\ reqs' = [reqs EXCEPT ![r] = Idle]
    /\ UNCHANGED Untouched

Next ==
    \/ ImportMain
    \/ RunMain
    \/ \E r \in Workers, city \in Cities : HttpWeather(r, city)
    \/ \E r \in Workers, city \in Cities, query \in Queries : HttpForecast(r, city, query)
    \/ \E r \in Workers, city \in Cities, days \in DaysArgs : DirectForecast(r, city, days)
    \/ \E r \in Workers : SendUpstream(r)
    \/ \E r \in Workers :
          reqs[r].pc = "wait" /\ \E reply \in Replies(r) : UpstreamReply(r, reply)
    \/ \E r \in Workers : LoopStep(r)
    \/ \E r \in Workers : LoopEnd(r)
    \/ \E r \in Workers : Respond(r)
    \/ \E r \in Workers : ReturnToCaller(r)
    \/ \E r \in Workers : Close(r)

Spec == Init /\ [][Next]_vars

SpecConc == InitConc /\ [][Next]_vars

SpecBoot == InitBoot /\ [][Next]_vars

(***************************************************************************)
(* The properties.  Runs are defined here from the list alone, not from    *)
(* the loop: a run starts at the first entry and wherever the local date   *)
(* of an entry differs from that of the entry before it.                   *)
(***************************************************************************)
Starts(l) == {i \in 1..Len(l) : i = 1 \/ DateOf(l[i].dt) # DateOf(l[i - 1].dt)}
\* the number of the run that entry i of l belongs to
RunOf(l, i) == Cardinality({j \in Starts(l) : j <= i})
\* the k-th maximal contiguous same-date run of l
Run(l, k) ==
    LET idx == {i \in 1..Len(l) : RunOf(l, i) = k}
        lo == CHOOSE i \in idx : \A j \in idx : i <= j
    IN  SubSeq(l, lo, lo + Cardinality(idx) - 1)

\* the workers inside or past the grouping loop of get_weather_forecast
Grouping == {r \in Workers : reqs[r].op = "forecast" /\ reqs[r].pc \in {"loop", "returned", "done"}
                             /\ RaisedBy("forecast", reqs[r].reply) = ""}
\* the entries worker r's loop has consumed
Consumed(r) == SubSeq(reqs[r].reply.list, 1, reqs[r].i - 1)
\* get_weather_forecast is returning its list
Grouped == {r \in Grouping : reqs[r].pc = "returned" /\ reqs[r].result.some}

SortedByTime(l) == \A i, j \in 1..Len(l) : i < j => l[i].dt <= l[j].dt
DatesOf(l) == {DateOf(l[i].dt) : i \in 1..Len(l)}
\* the places where a date appears for the first time
FirstSeen(l) == {i \in 1..Len(l) : \A j \in 1..(i - 1) : DateOf(l[j].dt) # DateOf(l[i].dt)}
KthFirstSeen(l, k) ==
    CHOOSE i \in FirstSeen(l) : Cardinality({j \in FirstSeen(l) : j <= i}) = k

\* C2: for a list sorted by timestamp the grouping, before the truncation to days,
\* yields exactly one summary per distinct calendar date of the list, in the order
\* in which the dates first appear.
C2_OnePerDateInOrder ==
    \A r \in Grouped :
        LET l == reqs[r].reply.list
            df == reqs[r].loc.daily_forecasts
        IN  SortedByTime(l) =>
                /\ Len(df) = Cardinality(DatesOf(l))
                /\ \A k \in 1..Len(df) : df[k].date = FormatDate(l[KthFirstSeen(l, k)].dt)
                /\ \A a, b \in 1..Len(df) : a # b => df[a].date # df[b].date

\* a sorted list of three samples over two dates has been grouped into two summaries
C2_Witness ==
    \E r \in Grouped :
        /\ SortedByTime(reqs[r].reply.list)
        /\ Len(reqs[r].reply.list) = 3
        /\ Cardinality(DatesOf(reqs[r].reply.list)) = 2
        /\ Len(reqs[r].loc.daily_forecasts) = 2

\* C3 as stated: temp_max and temp_min equal the true maximum and minimum of the
\* temperatures of the summary's run.
C3_ExactExtremes ==
    \A r \in Grouped :
        \A k \in 1..Len(reqs[r].loc.daily_forecasts) :
            LET t == Temps(Run(reqs[r].reply.list, k))
                s == reqs[r].loc.daily_forecasts[k]
            IN  /\ s.temp_max = CHOOSE x \in {t[i] : i \in 1..Len(t)} :
                                    \A i \in 1..Len(t) : t[i] <= x
                /\ s.temp_min = CHOOSE x \in {t[i] : i \in 1..Len(t)} :
                                    \A i \in 1..Len(t) : t[i] >= x

\* C3, amended: every summary has temp_max >= temp_min, and temp_max and temp_min are
\* the maximum and the minimum of the temperatures of exactly the entries of the
\* summary's run, each rounded to one decimal.
C3_RoundedExtremes ==
    \A r \in Grouped :
        \A k \in 1..Len(reqs[r].loc.daily_forecasts) :
            LET t == Temps(Run(reqs[r].reply.list, k))
                s == reqs[r].loc.daily_forecasts[k]
                hi == CHOOSE x \in {t[i] : i \in 1..Len(t)} : \A i \in 1..Len(t) : t[i] <= x
                lo == CHOOSE x \in {t[i] : i \in 1..Len(t)} : \A i \in 1..Len(t) : t[i] >= x
            IN  /\ s.temp_max >= s.temp_min
                /\ s.temp_max = Round1(hi)
                /\ s.temp_min = Round1(lo)

\* a summary of a run of three entries whose maximum is not its first entry and
\* whose extremes rounding changes, next to a summary of another run
C3_Witness ==
    \E r \in Grouped :
        /\ Len(reqs[r].loc.daily_forecasts) = 2
        /\ \E k \in 1..2 :
              LET t == Temps(Run(reqs[r].reply.list, k))
              IN  /\ Len(t) = 2
                  /\ t[1] < t[2]
                  /\ reqs[r].loc.daily_forecasts[k].temp_max # t[2]

\* C4: the description, icon, humidity and wind_speed of a summary all come from one
\* member of its run, the first in iteration order among those whose hour of day is
\* nearest to 12 (the description in title case).
C4_MiddayMember ==
    \A r \in Grouped :
        \A k \in 1..Len(reqs[r].loc.daily_forecasts) :
            LET run == Run(reqs[r].reply.list, k)
                s == reqs[r].loc.daily_forecasts[k]
                far(i) == Abs(HourOf(run[i].dt) - 12)
            IN  \E m \in 1..Len(run) :
                    /\ \A j \in 1..Len(run) : far(m) <= far(j)
                    /\ \A j \in 1..(m - 1) : far(j) > far(m)
                    /\ s.description = Title(run[m].weather.description)
                    /\ s.icon = run[m].weather.icon
                    /\ s.humidity = run[m].weather.humidity
                    /\ s.wind_speed = run[m].weather.wind

\* a summary of a run in which two members with different weather are equally near
\* to noon (hours 15 and 9, in that order): the first of them gave the summary
C4_Witness ==
    \E r \in Grouped :
        \E k \in 1..Len(reqs[r].loc.daily_forecasts) :
            LET run == Run(reqs[r].reply.list, k)
            IN  /\ Len(run) = 2
                /\ HourOf(run[1].dt) = 15 /\ HourOf(run[2].dt) = 9
                /\ run[1].weather # run[2].weather
                /\ reqs[r].loc.daily_forecasts[k].icon = run[1].weather.icon
                /\ reqs[r].loc.daily_forecasts[k].icon # run[2].weather.icon

\* C10: whatever the order of the list, the grouping is one left-to-right partition
\* into maximal contiguous same-date runs: the summaries made so far and the open
\* day_data are exactly the runs of the consumed entries, in order, every entry of a
\* run has the date its summary reports, and at the end there is one summary per run
\* (so a date with two non-adjacent runs has two summaries).
C10_ContiguousRuns ==
    \A r \in Grouping : reqs[r].pc # "done" /\ ~reqs[r].loc.raised =>
        LET l == reqs[r].reply.list
            c == IF reqs[r].pc = "loop" THEN Consumed(r) ELSE l
            loc == reqs[r].loc
            starts == Starts(c)
            closed == IF reqs[r].pc = "loop" /\ c # <<>> THEN Cardinality(starts) - 1
                      ELSE Cardinality(starts)
            last == CHOOSE i \in starts : \A j \in starts : j <= i
        IN  /\ Len(loc.daily_forecasts) = closed
            /\ c # <<>> => loc.day_data = SubSeq(c, last, Len(c))
            /\ c = <<>> => loc.day_data = <<>>
            /\ \A i \in 1..Len(c) :
                  LET k == Cardinality({j \in starts : j <= i})
                  IN  k <= closed => FormatDate(c[i].dt) = loc.daily_forecasts[k].date

\* an unsorted list of three entries whose first and last share a date that the
\* middle one does not: three summaries, two of them with the same date
C10_Witness ==
    \E r \in Grouped :
        LET df == reqs[r].loc.daily_forecasts
        IN  /\ Len(reqs[r].reply.list) = 3
            /\ Len(df) = 3
            /\ df[1].date = df[3].date
            /\ df[1].date # df[2].date

\* C1 as stated: whatever days is passed to get_weather_forecast, a successful call
\* returns at most min(max(days, 1), 5) summaries and asks for 8 times that many
\* samples.
C1_MethodClamps ==
    \A r \in Workers :
        reqs[r].op = "forecast" /\ reqs[r].pc = "returned" /\ reqs[r].result.some =>
            LET d == reqs[r].days
                bound == IF d < 1 THEN 1 ELSE IF d > 5 THEN 5 ELSE d
            IN  /\ Len(reqs[r].result.forecast) <= bound
                /\ reqs[r].sent.cnt = 8 * bound

\* C1, amended: get_forecast clamps the days query (5 when absent) to [1,5] before it
\* calls get_weather_forecast, so for every integer days of a GET /api/forecast the
\* call asks for 8 * min(max(days,1),5) samples and a successful call returns at most
\* min(max(days,1),5) summaries; get_weather_forecast itself does not clamp, and a
\* call of it with days in [1,5] returns at most days summaries.
C1_HandlerClamps ==
    \A r \in Workers :
        reqs[r].op = "forecast" /\ reqs[r].pc \in {"wait", "loop", "returned"} =>
            LET q == IF reqs[r].query.given THEN reqs[r].query.n ELSE 5
                bound == IF q < 1 THEN 1 ELSE IF q > 5 THEN 5 ELSE q
            IN  /\ reqs[r].via = "http" =>
                      /\ reqs[r].days = bound
                      /\ reqs[r].sent.cnt = 8 * bound
                      /\ reqs[r].result.some => Len(reqs[r].result.forecast) <= bound
                /\ reqs[r].days \in 1..5 /\ reqs[r].result.some =>
                      Len(reqs[r].result.forecast) <= reqs[r].days

\* a GET with days=0 whose list grouped into more than one summary returns one
C1_Witness ==
    \E r \in Workers :
        /\ reqs[r].via = "http" /\ reqs[r].op = "forecast" /\ reqs[r].pc = "returned"
        /\ reqs[r].query.given /\ reqs[r].query.n = 0
        /\ reqs[r].result.some
        /\ Len(reqs[r].loc.daily_forecasts) > 1
        /\ Len(reqs[r].result.forecast) = 1

\* C5: whenever get_weather_forecast returned a sequence (any sequence, not None),
\* the handler answers 200 with success=true and that sequence as data; it answers
\* 404 only when the fetch failed.
C5_SuccessIs200 ==
    \A r \in Workers :
        reqs[r].via = "http" /\ reqs[r].op = "forecast" /\ reqs[r].pc = "done" =>
            /\ reqs[r].result.some =>
                  /\ reqs[r].response.status = 200
                  /\ reqs[r].response.success
                  /\ reqs[r].response.forecast = reqs[r].result.forecast
            /\ reqs[r].response.status = 404 => ~reqs[r].result.some

\* the fault of worker r's fetch, if any: a failed call, a body without an expected
\* field or with an ill-typed one, a KeyError in the grouping
Faulted(r) ==
    \/ reqs[r].reply.kind \in FailureKinds
    \/ reqs[r].op = "weather" /\ ~reqs[r].reply.body.has_name
    \/ reqs[r].op = "weather" /\ ~reqs[r].reply.body.temp_is_number
    \/ reqs[r].op = "forecast" /\ reqs[r].reply.kind = "ok" /\ ~reqs[r].reply.has_list
    \/ reqs[r].op = "forecast" /\ reqs[r].loc.raised

\* C6: for both fetches and every kind of fault the fetch returns None, no exception
\* leaves it, and the handler answers 404 with success=false and an error that
\* contains the requested city.
C6_FaultsBecome404 ==
    \A r \in Workers :
        reqs[r].pc \in {"returned", "done"} /\ Faulted(r) =>
            /\ ~reqs[r].result.some
            /\ ~reqs[r].result.escaped
            /\ reqs[r].via = "http" /\ reqs[r].pc = "done" =>
                  /\ reqs[r].response.status = 404
                  /\ ~reqs[r].response.success
                  /\ \E i \in DOMAIN reqs[r].response.error :
                        reqs[r].response.error[i] = reqs[r].city

\* a GET /api/weather answered 404 after a body with an ill-typed field
C6_Witness ==
    \E r \in Workers :
        /\ reqs[r].pc = "done" /\ reqs[r].op = "weather"
        /\ reqs[r].reply.kind = "ok" /\ ~reqs[r].reply.body.temp_is_number
        /\ reqs[r].response.status = 404
        /\ reqs[r].city = "Atlantis"

\* C7: every inbound request causes at most one outbound GET before its response: the
\* count is 0 until the call goes out and 1 from then on, whatever the reply.
C7_OneCallPerRequest ==
    \A r \in Workers :
        /\ reqs[r].calls <= 1
        /\ reqs[r].pc \in {"wait", "loop", "returned", "done"} => reqs[r].calls = 1
        /\ reqs[r].pc \in {"idle", "call"} => reqs[r].calls = 0

\* a request answered after a timeout, with its one call
C7_Witness ==
    \E r \in Workers :
        /\ reqs[r].pc = "done" /\ reqs[r].via = "http"
        /\ reqs[r].reply.kind = "Timeout"
        /\ reqs[r].response.status = 404
        /\ reqs[r].calls = 1

\* C8: the process never serves without an API key: when neither the environment
\* variable nor config.ini gives a non-empty key the process is still booting or has
\* exited with a nonzero status, and no request was taken; a serving process holds a
\* non-empty key, the environment's when that is set and non-empty.
C8_NoServingWithoutKey ==
    LET envGood == envKey.set /\ envKey.val # ""
        fileGood == cfgFile.exists /\ cfgFile.has_api /\ cfgFile.api # ""
    IN  /\ ~envGood /\ ~fileGood => proc \in {"boot", "exited"}
        /\ proc = "exited" =>
              /\ exit_status # 0
              /\ \A r \in Workers : reqs[r] = Idle
        /\ proc \in {"imported", "serving"} =>
              /\ weather_api.api_key # ""
              /\ envGood => weather_api.api_key = envKey.val
              /\ ~envGood => weather_api.api_key = cfgFile.api
        /\ proc # "serving" => \A r \in Workers : reqs[r] = Idle

\* the variable is set but empty and config.ini holds an empty key: exit status 1
C8_Witness ==
    /\ proc = "exited" /\ exit_status = 1
    /\ envKey.set /\ envKey.val = ""
    /\ cfgFile.has_api /\ cfgFile.api = ""

\* C9: with two workers sharing the instance, no fetch changes the instance, and what
\* each worker holds (the locals of its loop, its result, its response) is what its
\* own city, days and upstream reply give when the request is served alone.
C9_Isolation ==
    /\ proc = "serving" =>
          weather_api = [api_key |-> envKey.val,
                         base_url |-> "http://api.openweathermap.org/data/2.5",
                         forecast_url |-> "http://api.openweathermap.org/data/2.5/forecast"]
    /\ \A r \in Workers :
          LET alone == IF reqs[r].op = "weather" THEN get_current_weather(reqs[r].reply)
                       ELSE get_weather_forecast(reqs[r].days, reqs[r].reply)
          IN  /\ reqs[r].pc = "loop" => reqs[r].loc = RunLoop(NoLocals, Consumed(r), 1)
              /\ reqs[r].pc \in {"returned", "done"} => reqs[r].result = alone
              /\ reqs[r].pc = "done" /\ reqs[r].via = "http" =>
                    reqs[r].response = HandlerResponse(reqs[r].op, reqs[r].city, alone)
              /\ reqs[r].pc \in {"wait", "loop", "returned", "done"} =>
                    /\ reqs[r].sent.q = reqs[r].city
                    /\ reqs[r].sent.appid = envKey.val

\* both workers are inside the grouping loop at once, on different lists
C9_Witness ==
    /\ Cardinality(Workers) = 2
    /\ \A r \in Workers : reqs[r].pc = "loop" /\ reqs[r].i = 2
    /\ reqs[1].reply.list # reqs[2].reply.list
    /\ reqs[1].city # reqs[2].city
====
